---- MODULE Spec2Model ----
(***************************************************************************)
(* GiveGo: the coin / escrow / inventory ledger and the request handlers   *)
(* that act on it (session start, session end, coin collect, purchase      *)
(* credit) together with the background coin expiration job.               *)
(*                                                                         *)
(* Every `await storage.x(...)` of a handler is one database statement and *)
(* one step of the model; storage methods that issue two statements        *)
(* (addToInventory, decrementInventory) take two steps.  Handlers of       *)
(* different requests interleave between statements.                       *)
(***************************************************************************)
EXTENDS Integers, Sequences, FiniteSets, TLC

\* ---------------------------------------------------------------- bounds
NumPlayers == 2
MaxHandlers == 2
MaxSessions == 2
MaxCoins == 2
MaxPurchases == 1
MaxPurchaseQty == 2
MaxStock == 2
MaxDebitQty == 2
MaxTime == 60
MaxCheckouts == 2
MaxCredits == 3

\* ------------------------------------------------------ program constants
COLLECTION_RADIUS_METERS == 10
COIN_TTL_MINUTES == 30
MaxCoinCount == 10

\* The clock is in minutes; it advances by one TTL at a time, so that a coin
\* is seen before, at and after its expiry instant.
TickStep == COIN_TTL_MINUTES

Players == 1..NumPlayers
Sponsors == {1}
Denominations == {100}
Sweeper == 0
Handlers == 1..MaxHandlers
Procs == {Sweeper} \cup Handlers
\* Distances (in meters) between the reported position and the coin, as
\* calculateDistance returns them for the positions a request may report.
Distances == {0, COLLECTION_RADIUS_METERS, COLLECTION_RADIUS_METERS + 1}
None == 0
Never == -1

\* Checkout sessions; the checkout.session.completed event of checkout k has
\* event id k, however often it is delivered.
CheckoutIds == 1..MaxCheckouts

NoCredits == [k \in CheckoutIds |-> [webhook |-> 0, redirect |-> 0]]

VARIABLES
    now,          \* wall clock (new Date()), minutes
    inventory,    \* table coin_inventory: sequence of rows, row id = index
    coins,        \* table generated_coins
    escrow,       \* table escrow
    sessions,     \* table player_sessions
    history,      \* table collection_history
    playerStats,  \* table player_profiles: the aggregate counters
    sponsorStats, \* table sponsor_profiles: the aggregate counters, by profile id
    req,          \* per process: the handler in flight and its locals
    answer,       \* the answer most recently sent: the request kind and the result
    purchased,    \* ghost: units credited by purchases, per <<sponsor, value>>
    returned,     \* ghost: per coin id, how often its unit was credited back
    processedEvents, \* the webhook handler's in-memory set of event ids, oldest first
    credits       \* ghost: per checkout, how often each path credited its coins

vars == <<now, inventory, coins, escrow, sessions, history, playerStats,
          sponsorStats, req, answer, purchased, returned, processedEvents, credits>>

\* ------------------------------------------------------------ storage layer

\* The rows a `where sponsorId = s and coinValue = v` selects.
InventoryRows(inv, s, v) ==
    {i \in DOMAIN inv : inv[i].sponsorId = s /\ inv[i].coinValue = v}

\* `const [existing] = await db.select()...`: the first row of the result, in
\* whatever order the database returns the matching rows; None if no row.
SelectExisting(inv, s, v) ==
    IF InventoryRows(inv, s, v) = {} THEN {None} ELSE InventoryRows(inv, s, v)

\* addToInventory, second statement: update by id if a row was found, else insert.
AddToInventoryWrite(inv, existing, s, v, q) ==
    IF existing # None
    THEN [inv EXCEPT ![existing].quantity = @ + q]
    ELSE Append(inv, [sponsorId |-> s, coinValue |-> v, quantity |-> q])

\* A debit that rejects a request for exactly the quantity in stock.
DecrementAllowedStrict(inv, existing, q) ==
    existing # None /\ inv[existing].quantity > q

\* decrementInventory, the check between its two statements, on the row read.
DecrementAllowed(inv, existing, q) ==
    existing # None /\ ~(inv[existing].quantity < q)

\* decrementInventory, second statement: `set quantity = quantity - q where id`.
DecrementInventoryWrite(inv, existing, q) ==
    [inv EXCEPT ![existing].quantity = @ - q]

\* updateCoinStatus: an unconditional update by id.
UpdateCoinStatus(cs, id, status, collectedBy, t) ==
    IF status = "collected"
    THEN [cs EXCEPT ![id].status = status,
                    ![id].collectedAt = t,
                    ![id].collectedBy = IF collectedBy # None THEN collectedBy ELSE @]
    ELSE [cs EXCEPT ![id].status = status]

GetActiveCoinsForSession(cs, sid) ==
    {i \in DOMAIN cs : cs[i].sessionId = sid /\ cs[i].status = "placed"}

\* A query for overdue coins that does not look at the status.
GetExpiredCoinsAnyStatus(cs, t) ==
    {i \in DOMAIN cs : cs[i].expiresAt <= t}

GetExpiredCoins(cs, t) ==
    {i \in DOMAIN cs : cs[i].status = "placed" /\ cs[i].expiresAt <= t}

\* A lookup that finds no active session for anyone.
GetActiveSessionNotFound(ss, p) == {None}

\* getActiveSession: `const [session]` of the player's active sessions.
GetActiveSession(ss, p) ==
    IF {i \in DOMAIN ss : ss[i].playerId = p /\ ss[i].status = "active"} = {}
    THEN {None}
    ELSE {i \in DOMAIN ss : ss[i].playerId = p /\ ss[i].status = "active"}

SetEscrowStatus(es, coinId, status, t) ==
    [i \in DOMAIN es |->
        IF es[i].coinId = coinId
        THEN [es[i] EXCEPT !.status = status, !.releasedAt = t]
        ELSE es[i]]

ReleaseEscrow(es, coinId, t) == SetEscrowStatus(es, coinId, "released", t)

RefundEscrow(es, coinId, t) == SetEscrowStatus(es, coinId, "refunded", t)

\* ------------------------------------------------------------ the draw
Min(a, b) == IF a < b THEN a ELSE b

PositiveRows(inv) == {i \in DOMAIN inv : inv[i].quantity > 0}

\* The orders in which a select without ORDER BY may return the rows S.
Orders(S) ==
    {f \in [1..Cardinality(S) -> S] : \A i, j \in DOMAIN f : i # j => f[i] # f[j]}

\* A pool that takes one entry more than a row's quantity.
RECURSIVE FlattenOneMore(_, _, _, _)
FlattenOneMore(inv, order, pool, cap) ==
    IF order = <<>> THEN pool
    ELSE LET row == inv[Head(order)]
             n == Min(row.quantity + 1, cap - Len(pool))
         IN FlattenOneMore(inv, Tail(order),
                           pool \o [i \in 1..n |-> [sponsorId |-> row.sponsorId,
                                                    coinValue |-> row.coinValue]],
                           cap)

\* The flattened candidate pool: row by row, one entry per unit, capped.
RECURSIVE Flatten(_, _, _, _)
Flatten(inv, order, pool, cap) ==
    IF order = <<>> THEN pool
    ELSE LET row == inv[Head(order)]
             n == Min(row.quantity, cap - Len(pool))
         IN Flatten(inv, Tail(order),
                    pool \o [i \in 1..n |-> [sponsorId |-> row.sponsorId,
                                             coinValue |-> row.coinValue]],
                    cap)

\* `coins.sort(() => Math.random() - 0.5).slice(0, Math.min(count, length))`:
\* the first entries of any permutation of the pool.
Slices(pool, count) ==
    LET n == Min(count, Len(pool)) IN
    {[i \in 1..n |-> pool[f[i]]] :
        f \in {g \in [1..n -> 1..Len(pool)] : \A i, j \in 1..n : i # j => g[i] # g[j]}}

GetRandomAvailableCoinsFromInventory(inv, count) ==
    IF PositiveRows(inv) = {} THEN {<<>>}
    ELSE UNION {Slices(Flatten(inv, o, <<>>, count * 2), count) :
                  o \in Orders(PositiveRows(inv))}

\* ------------------------------------------------------------ processes

tables == <<inventory, coins, escrow, sessions, history, playerStats, sponsorStats>>
ghosts == <<purchased, returned, credits>>

Idle == [op |-> "idle", pc |-> "idle", player |-> None, sess |-> None,
         sessCollected |-> 0, sessValue |-> 0, coin |-> None, dist |-> 0,
         units |-> <<>>, todo |-> {}, seen |-> {}, existing |-> None,
         sponsorId |-> None, coinValue |-> 0, qty |-> 0, expiresAt |-> 0,
         event |-> None]

Free(r) == req[r].op = "idle"

\* Requests are interchangeable: a new one takes the first free handler.
Fresh(r) == Free(r) /\ \A q \in Handlers : q < r => ~Free(q)

At(r, op, pc) == req[r].op = op /\ req[r].pc = pc

\* The handler goes on to its next statement with locals q.
Goto(r, q) ==
    /\ req' = [req EXCEPT ![r] = q]
    /\ UNCHANGED <<answer, processedEvents>>

\* res.json / res.status(..).json: the handler is over.
Reply(r, kind, text) ==
    /\ req' = [req EXCEPT ![r] = Idle]
    /\ answer' = <<kind, text>>
    /\ UNCHANGED processedEvents

Init ==
    /\ now = 0
    /\ inventory = <<>>
    /\ coins = <<>>
    /\ escrow = <<>>
    /\ sessions = <<>>
    /\ history = <<>>
    /\ playerStats = [p \in Players |-> [totalCoinsCollected |-> 0, totalDonated |-> 0]]
    /\ sponsorStats = [s \in Sponsors |->
          [totalCoinsPurchased |-> 0, totalCoinsPlaced |-> 0, totalDonated |-> 0]]
    /\ req = [r \in Procs |-> Idle]
    /\ answer = <<"", "">>
    /\ purchased = [k \in Sponsors \X Denominations |-> 0]
    /\ returned = <<>>
    /\ processedEvents = <<>>
    /\ credits = NoCredits

Tick ==
    /\ now + TickStep <= MaxTime
    /\ now' = now + TickStep
    /\ UNCHANGED <<tables, req, answer, ghosts, processedEvents>>

RECURSIVE SumOver(_, _)
SumOver(f, S) ==
    IF S = {} THEN 0
    ELSE LET x == CHOOSE y \in S : TRUE IN f[x] + SumOver(f, S \ {x})

\* Units bought so far plus those of the purchases being credited.
PurchaseLoad ==
    SumOver(purchased, DOMAIN purchased)
    + SumOver([r \in Handlers |-> IF req[r].op = "credit" THEN req[r].qty ELSE 0], Handlers)

\* GET /api/sponsor/payment-success, reached by the redirect that ends
\* checkout k (None: a purchase of no particular checkout): addToInventory,
\* first statement (the select).
CreditFor(r, k, s, v, q) ==
    /\ Fresh(r)
    /\ \E e \in SelectExisting(inventory, s, v) :
         Goto(r, [Idle EXCEPT !.op = "credit", !.pc = "addWrite", !.sponsorId = s,
                              !.coinValue = v, !.qty = q, !.existing = e,
                              !.event = k])
    /\ UNCHANGED <<now, tables, ghosts>>

Credit(r, s, v, q) ==
    /\ PurchaseLoad + q <= MaxPurchases * MaxPurchaseQty
    /\ CreditFor(r, None, s, v, q)

\* addToInventory: the update or insert
CreditWrite(r) ==
    /\ At(r, "credit", "addWrite")
    /\ inventory' = AddToInventoryWrite(inventory, req[r].existing, req[r].sponsorId,
                                        req[r].coinValue, req[r].qty)
    /\ purchased' = [purchased EXCEPT ![<<req[r].sponsorId, req[r].coinValue>>] = @ + req[r].qty]
    /\ credits' = IF req[r].event = None THEN credits
                  ELSE [credits EXCEPT ![req[r].event].redirect = @ + 1]
    /\ Reply(r, "credit", "credited")
    /\ UNCHANGED <<now, coins, escrow, sessions, history, playerStats, sponsorStats,
                   returned>>

\* ------------------------------------------ reversal of a placed coin
\* The three-part reversal (mark expired, credit inventory, refund escrow) as
\* the expiration job, session end and the lazy expiry of collect run it, for
\* the coins in req[r].todo, one coin at a time.

Reversing(r) == req[r].op \in {"sweep", "end", "expire"}

\* `await storage.updateCoinStatus(coin.id, "expired")`
ReverseMarkExpired(r) ==
    /\ Reversing(r) /\ req[r].pc = "expire"
    /\ \E c \in req[r].todo :
         /\ coins' = UpdateCoinStatus(coins, c, "expired", None, now)
         /\ Goto(r, [req[r] EXCEPT !.coin = c, !.todo = @ \ {c}, !.pc = "addSelect"])
    /\ UNCHANGED <<now, inventory, escrow, sessions, history, playerStats,
                   sponsorStats, ghosts>>

\* `await storage.addToInventory(coin.sponsorId, coin.coinValue, 1)`: the select
ReverseAddSelect(r) ==
    /\ Reversing(r) /\ req[r].pc = "addSelect"
    /\ \E e \in SelectExisting(inventory, coins[req[r].coin].sponsorId,
                                coins[req[r].coin].coinValue) :
         Goto(r, [req[r] EXCEPT !.existing = e, !.pc = "addWrite"])
    /\ UNCHANGED <<now, tables, ghosts>>

\* addToInventory: the update or insert
ReverseAddWrite(r) ==
    /\ Reversing(r) /\ req[r].pc = "addWrite"
    /\ inventory' = AddToInventoryWrite(inventory, req[r].existing,
                                        coins[req[r].coin].sponsorId,
                                        coins[req[r].coin].coinValue, 1)
    /\ returned' = [returned EXCEPT ![req[r].coin] = @ + 1]
    /\ Goto(r, [req[r] EXCEPT !.existing = None, !.pc = "refund"])
    /\ UNCHANGED <<now, coins, escrow, sessions, history, playerStats, sponsorStats,
                   purchased, credits>>

\* A lazy expiry that releases the hold where the other two paths refund it.
ReverseRefundLazyReleases(r) ==
    /\ Reversing(r) /\ req[r].pc = "refund"
    /\ escrow' = IF req[r].op = "expire"
                 THEN ReleaseEscrow(escrow, req[r].coin, now)
                 ELSE RefundEscrow(escrow, req[r].coin, now)
    /\ IF req[r].todo # {}
       THEN Goto(r, [req[r] EXCEPT !.coin = None, !.pc = "expire"])
       ELSE IF req[r].op = "sweep"
       THEN Goto(r, Idle)
       ELSE IF req[r].op = "expire"
       THEN Reply(r, "collect", "CoinExpired")
       ELSE Goto(r, [req[r] EXCEPT !.coin = None, !.pc = "endSession"])
    /\ UNCHANGED <<now, inventory, coins, sessions, history, playerStats,
                   sponsorStats, ghosts>>

\* `await storage.refundEscrow(coin.id)`, then the next coin or what follows the
\* loop: the job's tick is over, collect answers, session end goes on.
ReverseRefund(r) ==
    /\ Reversing(r) /\ req[r].pc = "refund"
    /\ escrow' = RefundEscrow(escrow, req[r].coin, now)
    /\ IF req[r].todo # {}
       THEN Goto(r, [req[r] EXCEPT !.coin = None, !.pc = "expire"])
       ELSE IF req[r].op = "sweep"
       THEN Goto(r, Idle)
       ELSE IF req[r].op = "expire"
       THEN Reply(r, "collect", "CoinExpired")
       ELSE Goto(r, [req[r] EXCEPT !.coin = None, !.pc = "endSession"])
    /\ UNCHANGED <<now, inventory, coins, sessions, history, playerStats,
                   sponsorStats, ghosts>>

\* ------------------------------------------------- coin expiration job
\* runExpirationCheck, first statement: getExpiredCoins.  With nothing overdue
\* the tick is over at once.
SweepTick ==
    /\ Free(Sweeper)
    /\ GetExpiredCoins(coins, now) # {}
    /\ Goto(Sweeper, [Idle EXCEPT !.op = "sweep", !.pc = "expire",
                                  !.todo = GetExpiredCoins(coins, now),
                                  !.seen = GetExpiredCoins(coins, now)])
    /\ UNCHANGED <<now, tables, ghosts>>

\* ----------------------------------------- POST /api/player/session/end
\* getActiveSession
EndSession(r, p) ==
    /\ Fresh(r)
    /\ \E s \in GetActiveSession(sessions, p) :
         IF s = None
         THEN Reply(r, "end", "NoActiveSession")
         ELSE Goto(r, [Idle EXCEPT !.op = "end", !.pc = "getCoins", !.player = p,
                                   !.sess = s,
                                   !.sessCollected = sessions[s].coinsCollected,
                                   !.sessValue = sessions[s].totalValue])
    /\ UNCHANGED <<now, tables, ghosts>>

\* getActiveCoinsForSession
EndGetCoins(r) ==
    /\ At(r, "end", "getCoins")
    /\ LET remaining == GetActiveCoinsForSession(coins, req[r].sess) IN
         Goto(r, [req[r] EXCEPT !.todo = remaining, !.seen = remaining,
                    !.pc = IF remaining = {} THEN "endSession" ELSE "expire"])
    /\ UNCHANGED <<now, tables, ghosts>>

EndStatus(coinsCollected) == IF coinsCollected > 0 THEN "completed" ELSE "abandoned"

\* storage.endSession(session.id, status), status from the session as read
EndSessionWrite(r) ==
    /\ At(r, "end", "endSession")
    /\ sessions' = [sessions EXCEPT ![req[r].sess].status = EndStatus(req[r].sessCollected),
                                    ![req[r].sess].endedAt = now]
    /\ Reply(r, "end", EndStatus(req[r].sessCollected))
    /\ UNCHANGED <<now, inventory, coins, escrow, history, playerStats, sponsorStats,
                   ghosts>>

\* --------------------------------------- POST /api/player/session/start
\* Session and coin rows are bounded resources of the model: a start is
\* accepted while a session row and a coin row are left for it, and it draws
\* no more units than coin rows are left.
StartsBeforeCreate ==
    {r \in Handlers : req[r].op = "start" /\ req[r].pc \in {"draw", "createSession"}}

\* Coin rows that the start in handler r may still create.
Reserved(r) ==
    IF req[r].op # "start" THEN 0
    ELSE IF req[r].pc = "draw" THEN 1
    ELSE IF req[r].pc = "createEscrow" THEN Len(req[r].units) - 1
    ELSE Len(req[r].units)

CoinRowsLeft(S) == MaxCoins - Len(coins) - SumOver([r \in Handlers |-> Reserved(r)], S)

\* getActiveSession, and the answer if one exists
StartSession(r, p) ==
    /\ Fresh(r)
    /\ Len(sessions) + Cardinality(StartsBeforeCreate) < MaxSessions
    /\ CoinRowsLeft(Handlers) > 0
    /\ \E s \in GetActiveSession(sessions, p) :
         IF s # None
         THEN Reply(r, "start", "SessionAlreadyActive")
         ELSE Goto(r, [Idle EXCEPT !.op = "start", !.pc = "draw", !.player = p])
    /\ UNCHANGED <<now, tables, ghosts>>

\* coinCount = floor(random * 10) + 1; getRandomAvailableCoinsFromInventory
StartDraw(r) ==
    /\ At(r, "start", "draw")
    /\ \E coinCount \in 1..Min(MaxCoinCount, CoinRowsLeft(Handlers \ {r})) :
         \E coinsToPlace \in GetRandomAvailableCoinsFromInventory(inventory, coinCount) :
           IF Len(coinsToPlace) = 0
           THEN Reply(r, "start", "NoCoinsAvailable")
           ELSE Goto(r, [req[r] EXCEPT !.units = coinsToPlace, !.pc = "createSession"])
    /\ UNCHANGED <<now, tables, ghosts>>

\* createSession; expiresAt = Date.now() + COIN_TTL_MINUTES
StartCreateSession(r) ==
    /\ At(r, "start", "createSession")
    /\ sessions' = Append(sessions, [playerId |-> req[r].player, status |-> "active",
                                     coinsCollected |-> 0, totalValue |-> 0,
                                     endedAt |-> Never])
    /\ Goto(r, [req[r] EXCEPT !.sess = Len(sessions) + 1,
                              !.expiresAt = now + COIN_TTL_MINUTES,
                              !.pc = "decSelect"])
    /\ UNCHANGED <<now, inventory, coins, escrow, history, playerStats, sponsorStats,
                   ghosts>>

\* After a unit of the loop: the next unit, or the final read and the answer.
NextUnit(q) ==
    [q EXCEPT !.units = Tail(@), !.existing = None, !.coin = None,
              !.pc = IF Len(q.units) > 1 THEN "decSelect" ELSE "respond"]

\* A placement loop without `if (!decremented) continue`: the coin of a unit
\* is created whether or not its debit succeeded.
StartDecrementSelectNoContinue(r) ==
    /\ At(r, "start", "decSelect")
    /\ \E e \in SelectExisting(inventory, Head(req[r].units).sponsorId,
                                Head(req[r].units).coinValue) :
         IF DecrementAllowed(inventory, e, 1)
         THEN Goto(r, [req[r] EXCEPT !.existing = e, !.pc = "decUpdate"])
         ELSE Goto(r, [req[r] EXCEPT !.pc = "createCoin"])
    /\ UNCHANGED <<now, tables, ghosts>>

\* decrementInventory(sponsorId, coinValue, 1): the select and the check;
\* `if (!decremented) continue`
StartDecrementSelect(r) ==
    /\ At(r, "start", "decSelect")
    /\ \E e \in SelectExisting(inventory, Head(req[r].units).sponsorId,
                                Head(req[r].units).coinValue) :
         IF DecrementAllowed(inventory, e, 1)
         THEN Goto(r, [req[r] EXCEPT !.existing = e, !.pc = "decUpdate"])
         ELSE Goto(r, NextUnit(req[r]))
    /\ UNCHANGED <<now, tables, ghosts>>

\* decrementInventory: the update
StartDecrementUpdate(r) ==
    /\ At(r, "start", "decUpdate")
    /\ inventory' = DecrementInventoryWrite(inventory, req[r].existing, 1)
    /\ Goto(r, [req[r] EXCEPT !.existing = None, !.pc = "createCoin"])
    /\ UNCHANGED <<now, coins, escrow, sessions, history, playerStats, sponsorStats,
                   ghosts>>

\* createGeneratedCoin
StartCreateCoin(r) ==
    /\ At(r, "start", "createCoin")
    /\ coins' = Append(coins, [sponsorId |-> Head(req[r].units).sponsorId,
                               sessionId |-> req[r].sess,
                               coinValue |-> Head(req[r].units).coinValue,
                               status |-> "placed",
                               expiresAt |-> req[r].expiresAt,
                               collectedAt |-> Never,
                               collectedBy |-> None])
    /\ returned' = Append(returned, 0)
    /\ Goto(r, [req[r] EXCEPT !.coin = Len(coins) + 1, !.pc = "createEscrow"])
    /\ UNCHANGED <<now, inventory, escrow, sessions, history, playerStats,
                   sponsorStats, purchased, credits>>

\* createEscrow
StartCreateEscrow(r) ==
    /\ At(r, "start", "createEscrow")
    /\ escrow' = Append(escrow, [coinId |-> req[r].coin,
                                 sponsorId |-> Head(req[r].units).sponsorId,
                                 amount |-> Head(req[r].units).coinValue,
                                 status |-> "held",
                                 releasedAt |-> Never])
    /\ Goto(r, NextUnit(req[r]))
    /\ UNCHANGED <<now, inventory, coins, sessions, history, playerStats,
                   sponsorStats, ghosts>>

\* getActiveCoinsForSession and res.json({ session, coins })
StartRespond(r) ==
    /\ At(r, "start", "respond")
    /\ Reply(r, "start", "started")
    /\ UNCHANGED <<now, tables, ghosts>>

\* ----------------------------------------- POST /api/player/coin/collect
\* A sponsor profile's id (what inventory, coins and escrow carry as sponsorId)
\* and the user id of its owner are different identifiers.
SponsorUserId(s) == 100 + s

\* updateSponsorStats(userId, coinsPlaced, donated): `where userId = userId`
UpdateSponsorStats(stats, userId, coinsPlaced, donated) ==
    [s \in DOMAIN stats |->
        IF SponsorUserId(s) = userId
        THEN [stats[s] EXCEPT !.totalCoinsPlaced = @ + coinsPlaced,
                              !.totalDonated = @ + donated]
        ELSE stats[s]]

\* updatePlayerStats(userId, coinsCollected, donated)
UpdatePlayerStats(stats, p, coinsCollected, donated) ==
    [stats EXCEPT ![p].totalCoinsCollected = @ + coinsCollected,
                  ![p].totalDonated = @ + donated]

\* getActiveSession
Collect(r, p, c, d) ==
    /\ Fresh(r)
    /\ \E s \in GetActiveSession(sessions, p) :
         IF s = None
         THEN Reply(r, "collect", "NoActiveSession")
         ELSE Goto(r, [Idle EXCEPT !.op = "collect", !.pc = "getCoin", !.player = p,
                                   !.sess = s,
                                   !.sessCollected = sessions[s].coinsCollected,
                                   !.sessValue = sessions[s].totalValue,
                                   !.coin = c, !.dist = d])
    /\ UNCHANGED <<now, tables, ghosts>>

\* A collect that never takes the lazy-expiry path.
CollectVerdictNoExpiry(cs, c, sess, d, t) ==
    IF c \notin DOMAIN cs THEN "CoinNotFound"
    ELSE IF cs[c].status # "placed" THEN "CoinUnavailable"
    ELSE IF cs[c].sessionId # sess THEN "WrongSession"
    ELSE IF d > COLLECTION_RADIUS_METERS THEN "TooFar"
    ELSE "collect"

\* A collect whose radius is one meter wider.
CollectVerdictWiderRadius(cs, c, sess, d, t) ==
    IF c \notin DOMAIN cs THEN "CoinNotFound"
    ELSE IF cs[c].status # "placed" THEN "CoinUnavailable"
    ELSE IF cs[c].sessionId # sess THEN "WrongSession"
    ELSE IF d > COLLECTION_RADIUS_METERS + 1 THEN "TooFar"
    ELSE IF cs[c].expiresAt < t THEN "expired"
    ELSE "collect"

\* A collect that does not compare the coin's session with the player's.
CollectVerdictAnySession(cs, c, sess, d, t) ==
    IF c \notin DOMAIN cs THEN "CoinNotFound"
    ELSE IF cs[c].status # "placed" THEN "CoinUnavailable"
    ELSE IF d > COLLECTION_RADIUS_METERS THEN "TooFar"
    ELSE IF cs[c].expiresAt < t THEN "expired"
    ELSE "collect"

\* A collect that measures the distance before it looks at status and session.
CollectVerdictDistanceFirst(cs, c, sess, d, t) ==
    IF c \notin DOMAIN cs THEN "CoinNotFound"
    ELSE IF d > COLLECTION_RADIUS_METERS THEN "TooFar"
    ELSE IF cs[c].status # "placed" THEN "CoinUnavailable"
    ELSE IF cs[c].sessionId # sess THEN "WrongSession"
    ELSE IF cs[c].expiresAt < t THEN "expired"
    ELSE "collect"

\* The checks of the handler on the coin row as read, in the handler's order.
CollectVerdict(cs, c, sess, d, t) ==
    IF c \notin DOMAIN cs THEN "CoinNotFound"
    ELSE IF cs[c].status # "placed" THEN "CoinUnavailable"
    ELSE IF cs[c].sessionId # sess THEN "WrongSession"
    ELSE IF d > COLLECTION_RADIUS_METERS THEN "TooFar"
    ELSE IF cs[c].expiresAt < t THEN "expired"
    ELSE "collect"

\* getGeneratedCoin and the checks
CollectGetCoin(r) ==
    /\ At(r, "collect", "getCoin")
    /\ LET verdict == CollectVerdict(coins, req[r].coin, req[r].sess, req[r].dist, now) IN
         IF verdict = "collect"
         THEN Goto(r, [req[r] EXCEPT !.pc = "markCollected"])
         ELSE IF verdict = "expired"
         THEN Goto(r, [req[r] EXCEPT !.op = "expire", !.pc = "expire",
                                     !.todo = {req[r].coin}, !.seen = {req[r].coin}])
         ELSE Reply(r, "collect", verdict)
    /\ UNCHANGED <<now, tables, ghosts>>

\* A collect that debits the coin's unit once more when it marks the coin.
CollectMarkCollectedDebiting(r) ==
    /\ At(r, "collect", "markCollected")
    /\ coins' = UpdateCoinStatus(coins, req[r].coin, "collected", req[r].player, now)
    /\ inventory' = [i \in DOMAIN inventory |->
                       IF i \in InventoryRows(inventory, coins[req[r].coin].sponsorId,
                                              coins[req[r].coin].coinValue)
                       THEN [inventory[i] EXCEPT !.quantity = @ - 1]
                       ELSE inventory[i]]
    /\ Goto(r, [req[r] EXCEPT !.pc = "release"])
    /\ UNCHANGED <<now, escrow, sessions, history, playerStats, sponsorStats, ghosts>>

\* updateCoinStatus(coin.id, "collected", profile.id)
CollectMarkCollected(r) ==
    /\ At(r, "collect", "markCollected")
    /\ coins' = UpdateCoinStatus(coins, req[r].coin, "collected", req[r].player, now)
    /\ Goto(r, [req[r] EXCEPT !.pc = "release"])
    /\ UNCHANGED <<now, inventory, escrow, sessions, history, playerStats,
                   sponsorStats, ghosts>>

\* releaseEscrow(coin.id)
CollectReleaseEscrow(r) ==
    /\ At(r, "collect", "release")
    /\ escrow' = ReleaseEscrow(escrow, req[r].coin, now)
    /\ Goto(r, [req[r] EXCEPT !.pc = "playerStats"])
    /\ UNCHANGED <<now, inventory, coins, sessions, history, playerStats,
                   sponsorStats, ghosts>>

\* updatePlayerStats(userId, 1, coin.coinValue)
CollectPlayerStats(r) ==
    /\ At(r, "collect", "playerStats")
    /\ playerStats' = UpdatePlayerStats(playerStats, req[r].player, 1,
                                        coins[req[r].coin].coinValue)
    /\ Goto(r, [req[r] EXCEPT !.pc = "sponsorStats"])
    /\ UNCHANGED <<now, inventory, coins, escrow, sessions, history, sponsorStats,
                   ghosts>>

\* updateSponsorStats(coin.sponsorId, 0, coin.coinValue)
CollectSponsorStats(r) ==
    /\ At(r, "collect", "sponsorStats")
    /\ sponsorStats' = UpdateSponsorStats(sponsorStats, coins[req[r].coin].sponsorId, 0,
                                          coins[req[r].coin].coinValue)
    /\ Goto(r, [req[r] EXCEPT !.pc = "updateSession"])
    /\ UNCHANGED <<now, inventory, coins, escrow, sessions, history, playerStats,
                   ghosts>>

\* updateSession(session.id, { coinsCollected: session.coinsCollected + 1, ... })
CollectUpdateSession(r) ==
    /\ At(r, "collect", "updateSession")
    /\ sessions' = [sessions EXCEPT
                      ![req[r].sess].coinsCollected = req[r].sessCollected + 1,
                      ![req[r].sess].totalValue =
                          req[r].sessValue + coins[req[r].coin].coinValue]
    /\ Goto(r, [req[r] EXCEPT !.pc = "addHistory"])
    /\ UNCHANGED <<now, inventory, coins, escrow, history, playerStats, sponsorStats,
                   ghosts>>

\* addCollectionHistory and the answer
CollectAddHistory(r) ==
    /\ At(r, "collect", "addHistory")
    /\ history' = Append(history, [playerId |-> req[r].player, coinId |-> req[r].coin,
                                   sessionId |-> req[r].sess,
                                   coinValue |-> coins[req[r].coin].coinValue,
                                   collectedAt |-> now])
    /\ Reply(r, "collect", "collected")
    /\ UNCHANGED <<now, inventory, coins, escrow, sessions, playerStats, sponsorStats,
                   ghosts>>

\* The coin ids a collect request may name: every coin, and one id of no coin.
CoinIds == 1..(Len(coins) + 1)

\* ------------------------------------------------------ specifications

\* The statements of the request handler in flight in r, and the requests
\* that r may accept from the players ps; collect requests name a coin id of
\* ids and report a position at a distance of dists from it.
Purchase(r) ==
    \/ \E s \in Sponsors, v \in Denominations, q \in 1..MaxPurchaseQty : Credit(r, s, v, q)
    \/ CreditWrite(r)

Play(r, ps, ids, dists) ==
    \/ \E p \in ps : StartSession(r, p)
    \/ StartDraw(r)
    \/ StartCreateSession(r)
    \/ StartDecrementSelect(r)
    \/ StartDecrementUpdate(r)
    \/ StartCreateCoin(r)
    \/ StartCreateEscrow(r)
    \/ StartRespond(r)
    \/ \E p \in ps : EndSession(r, p)
    \/ EndGetCoins(r)
    \/ EndSessionWrite(r)
    \/ \E p \in ps, c \in ids, d \in dists : Collect(r, p, c, d)
    \/ CollectGetCoin(r)
    \/ CollectMarkCollected(r)
    \/ CollectReleaseEscrow(r)
    \/ CollectPlayerStats(r)
    \/ CollectSponsorStats(r)
    \/ CollectUpdateSession(r)
    \/ CollectAddHistory(r)
    \/ ReverseMarkExpired(r)
    \/ ReverseAddSelect(r)
    \/ ReverseAddWrite(r)
    \/ ReverseRefund(r)

Sweep ==
    \/ SweepTick
    \/ ReverseMarkExpired(Sweeper)
    \/ ReverseAddSelect(Sweeper)
    \/ ReverseAddWrite(Sweeper)
    \/ ReverseRefund(Sweeper)

\* One request at a time, the expiration job running beside it, time passing.
Next ==
    \/ Tick
    \/ Sweep
    \/ Purchase(1)
    \/ Play(1, {1}, CoinIds, Distances)

Spec == Init /\ [][Next]_vars

\* Concurrent requests of the players over a stocked inventory, within one
\* TTL; every collect names an existing coin from within the radius.
InitRace ==
    /\ now = 0
    /\ \E q \in 1..MaxStock :
         /\ inventory = <<[sponsorId |-> 1, coinValue |-> 100, quantity |-> q]>>
         /\ purchased = [k \in Sponsors \X Denominations |-> q]
    /\ coins = <<>>
    /\ escrow = <<>>
    /\ sessions = <<>>
    /\ history = <<>>
    /\ playerStats = [p \in Players |-> [totalCoinsCollected |-> 0, totalDonated |-> 0]]
    /\ sponsorStats = [s \in Sponsors |->
          [totalCoinsPurchased |-> 0, totalCoinsPlaced |-> 0, totalDonated |-> 0]]
    /\ req = [r \in Procs |-> Idle]
    /\ answer = <<"", "">>
    /\ returned = <<>>
    /\ processedEvents = <<>>
    /\ credits = NoCredits

NextRace == \E r \in Handlers : Play(r, {1}, DOMAIN coins, {0})

SpecRace == InitRace /\ [][NextRace]_vars

\* The requests of all players, one at a time, over a stocked inventory, time
\* passing: each player may name any coin, from any distance.
NextPlayers ==
    \/ Tick
    \/ Play(1, Players, CoinIds, Distances)

SpecPlayers == InitRace /\ [][NextPlayers]_vars

\* ------------------------------------------------ the inventory ledger alone
\* decrementInventory(sponsorId, coinValue, quantity) for any arguments, as
\* concurrent callers run its two statements.
DebitSponsors == {1, 2}

\* the select and the check
Debit(r, s, v, q) ==
    /\ Fresh(r)
    /\ \E e \in SelectExisting(inventory, s, v) :
         IF DecrementAllowed(inventory, e, q)
         THEN Goto(r, [Idle EXCEPT !.op = "debit", !.pc = "decUpdate", !.sponsorId = s,
                                   !.coinValue = v, !.qty = q, !.existing = e])
         ELSE Reply(r, "debit", "false")
    /\ UNCHANGED <<now, tables, ghosts>>

\* the update
DebitWrite(r) ==
    /\ At(r, "debit", "decUpdate")
    /\ inventory' = DecrementInventoryWrite(inventory, req[r].existing, req[r].qty)
    /\ Reply(r, "debit", "true")
    /\ UNCHANGED <<now, coins, escrow, sessions, history, playerStats, sponsorStats,
                   ghosts>>

\* Inventory tables with at most one row per (sponsor, value).
StockedInventories ==
    {<<>>}
    \cup {<<[sponsorId |-> 1, coinValue |-> 100, quantity |-> a]>> : a \in 0..MaxStock}
    \cup {<<[sponsorId |-> 1, coinValue |-> 100, quantity |-> a],
            [sponsorId |-> 2, coinValue |-> 100, quantity |-> b]>> :
            a \in 0..MaxStock, b \in 0..MaxStock}

InitInventory ==
    /\ now = 0
    /\ inventory \in StockedInventories
    /\ purchased = [k \in Sponsors \X Denominations |-> 0]
    /\ coins = <<>>
    /\ escrow = <<>>
    /\ sessions = <<>>
    /\ history = <<>>
    /\ playerStats = [p \in Players |-> [totalCoinsCollected |-> 0, totalDonated |-> 0]]
    /\ sponsorStats = [s \in Sponsors |->
          [totalCoinsPurchased |-> 0, totalCoinsPlaced |-> 0, totalDonated |-> 0]]
    /\ req = [r \in Procs |-> Idle]
    /\ answer = <<"", "">>
    /\ returned = <<>>
    /\ processedEvents = <<>>
    /\ credits = NoCredits

NextInventory ==
    \/ \E r \in Handlers, s \in DebitSponsors, v \in Denominations, q \in 1..MaxDebitQty :
         Debit(r, s, v, q)
    \/ \E r \in Handlers : DebitWrite(r)

SpecInventory == InitInventory /\ [][NextInventory]_vars

\* ------------------------------------------------ purchases of coins
\* A completed checkout k reaches the server twice: as the webhook event
\* checkout.session.completed (event id k, re-delivered at will) and as the
\* redirect of the sponsor's browser to /api/sponsor/payment-success.  Each
\* checkout buys CheckoutQuantity coins of one denomination for one sponsor.
MaxProcessedEvents == 1000

CheckoutSponsor == 1

CheckoutValue == 100

CheckoutQuantity == 1

\* Credits made and credits that requests in flight may still make.
CreditLoad ==
    SumOver([k \in CheckoutIds |-> credits[k].webhook + credits[k].redirect], CheckoutIds)
    + Cardinality({r \in Handlers : /\ req[r].op \in {"webhook", "credit"}
                                    /\ req[r].pc \in {"dedup", "addSelect", "addWrite"}})

\* processWebhook up to the idempotency check: sync.processWebhook and the
\* construction of the event are awaited first.
WebhookDeliver(r, k) ==
    /\ Fresh(r)
    /\ CreditLoad < MaxCredits
    /\ Goto(r, [Idle EXCEPT !.op = "webhook", !.pc = "dedup", !.event = k,
                            !.sponsorId = CheckoutSponsor, !.coinValue = CheckoutValue,
                            !.qty = CheckoutQuantity])
    /\ UNCHANGED <<now, tables, ghosts>>

\* `if (processedEvents.has(event.id)) return`, else handleCheckoutCompleted
\* is entered and issues addToInventory
WebhookDedup(r) ==
    /\ At(r, "webhook", "dedup")
    /\ IF \E i \in DOMAIN processedEvents : processedEvents[i] = req[r].event
       THEN Reply(r, "webhook", "skipped")
       ELSE Goto(r, [req[r] EXCEPT !.pc = "addSelect"])
    /\ UNCHANGED <<now, tables, ghosts>>

\* addToInventory: the select
WebhookAddSelect(r) ==
    /\ At(r, "webhook", "addSelect")
    /\ \E e \in SelectExisting(inventory, req[r].sponsorId, req[r].coinValue) :
         Goto(r, [req[r] EXCEPT !.existing = e, !.pc = "addWrite"])
    /\ UNCHANGED <<now, tables, ghosts>>

\* addToInventory: the update or insert
WebhookAddWrite(r) ==
    /\ At(r, "webhook", "addWrite")
    /\ inventory' = AddToInventoryWrite(inventory, req[r].existing, req[r].sponsorId,
                                        req[r].coinValue, req[r].qty)
    /\ purchased' = [purchased EXCEPT ![<<req[r].sponsorId, req[r].coinValue>>] = @ + req[r].qty]
    /\ credits' = [credits EXCEPT ![req[r].event].webhook = @ + 1]
    /\ Goto(r, [req[r] EXCEPT !.existing = None, !.pc = "purchasedCount"])
    /\ UNCHANGED <<now, coins, escrow, sessions, history, playerStats, sponsorStats,
                   returned>>

\* getSponsorProfileById and updateSponsorPurchasedCount(sponsorProfile.userId, quantity)
WebhookPurchasedCount(r) ==
    /\ At(r, "webhook", "purchasedCount")
    /\ sponsorStats' = [sponsorStats EXCEPT
                          ![req[r].sponsorId].totalCoinsPurchased = @ + req[r].qty]
    /\ Goto(r, [req[r] EXCEPT !.pc = "mark"])
    /\ UNCHANGED <<now, inventory, coins, escrow, sessions, history, playerStats,
                   ghosts>>

\* processedEvents.add(event.id), dropping the oldest id beyond the cap
AddProcessed(pe, e) ==
    LET added == IF \E i \in DOMAIN pe : pe[i] = e THEN pe ELSE Append(pe, e)
    IN IF Len(added) > MaxProcessedEvents THEN Tail(added) ELSE added

WebhookMark(r) ==
    /\ At(r, "webhook", "mark")
    /\ processedEvents' = AddProcessed(processedEvents, req[r].event)
    /\ req' = [req EXCEPT ![r] = Idle]
    /\ answer' = <<"webhook", "processed">>
    /\ UNCHANGED <<now, tables, ghosts>>

\* GET /api/sponsor/payment-success?coins=..&value=.. after checkout k
PaymentSuccess(r, k) ==
    /\ CreditLoad < MaxCredits
    /\ CreditFor(r, k, CheckoutSponsor, CheckoutValue, CheckoutQuantity)

NextPurchases ==
    \E r \in Handlers :
        \/ \E k \in CheckoutIds : WebhookDeliver(r, k)
        \/ WebhookDedup(r)
        \/ WebhookAddSelect(r)
        \/ WebhookAddWrite(r)
        \/ WebhookPurchasedCount(r)
        \/ WebhookMark(r)
        \/ \E k \in CheckoutIds : PaymentSuccess(r, k)
        \/ CreditWrite(r)

SpecPurchases == Init /\ [][NextPurchases]_vars

\* ------------------------------------------------------------ properties

Quiescent == \A r \in Procs : Free(r)

Terminal(status) == status \in {"collected", "expired"}

RecordsOf(c) == {i \in DOMAIN history : history[i].coinId = c}

HoldsOf(c) == {i \in DOMAIN escrow : escrow[i].coinId = c}

\* Units in the inventory rows of sponsor s and value v.
InStock(s, v) ==
    SumOver([i \in DOMAIN inventory |-> inventory[i].quantity], InventoryRows(inventory, s, v))

CoinsOf(s, v, statuses) ==
    {c \in DOMAIN coins : /\ coins[c].sponsorId = s
                          /\ coins[c].coinValue = v
                          /\ coins[c].status \in statuses}

\* C1: a coin that is collected or expired never changes status again (so
\* its status leaves 'placed' at most once), whatever the interleaving of
\* collect, lazy expiry, the expiration job and session end.
C1_TerminalStatusIsFinal ==
    [][\A c \in DOMAIN coins :
         Terminal(coins[c].status) => coins'[c].status = coins[c].status]_vars

\* C2: a coin is collected successfully at most once: concurrent collect
\* calls on a placed coin leave at most one CollectionRecord for it.
C2_CollectedAtMostOnce ==
    \A c \in DOMAIN coins : Cardinality(RecordsOf(c)) <= 1

\* C3: no coin is both settled as collected (a CollectionRecord exists for
\* it) and reversed as expired (its unit was credited back to inventory).
C3_CollectedXorReversed ==
    \A c \in DOMAIN coins : ~(RecordsOf(c) # {} /\ returned[c] > 0)

\* C4: once no operation is in flight, the unit of every expired coin was
\* credited back exactly once and the unit of every collected coin never.
C4_CreditedBackOncePerExpiredCoin ==
    Quiescent =>
        \A c \in DOMAIN coins :
            /\ coins[c].status = "expired" => returned[c] = 1
            /\ coins[c].status = "collected" => returned[c] = 0

\* C5: with no operation in flight, the units credited by purchases equal,
\* for each (owner, denomination), the inventory quantity plus the coins
\* placed plus the coins collected.
C5_ValueConserved ==
    Quiescent =>
        \A k \in DOMAIN purchased :
            purchased[k] = InStock(k[1], k[2])
                           + Cardinality(CoinsOf(k[1], k[2], {"placed", "collected"}))

\* C6: every inventory row's quantity is >= 0 in every reachable state.
C6_QuantityNonNegative ==
    \A i \in DOMAIN inventory : inventory[i].quantity >= 0

\* Debits of session starts that returned true: one per coin row, and one per
\* handler that has debited a unit and not yet created its coin.
DebitsSucceeded ==
    Len(coins) + Cardinality({r \in Handlers : At(r, "start", "createCoin")})

\* C7: debits of 1 succeed at most as often as units were put into the
\* inventory (the stock bought plus the units credited back).
C7_NoMoreDebitsThanUnits ==
    DebitsSucceeded <= SumOver(purchased, DOMAIN purchased)
                       + SumOver(returned, DOMAIN returned)

\* C8: a debit returns false, changing no inventory row, exactly when no row
\* exists for (owner, denomination) or the row it read holds less than the
\* requested quantity; otherwise it goes on to decrement exactly the row it
\* read by the requested quantity, changes no other row, and returns true.
C8_DebitContract ==
    [][\A r \in Handlers :
         /\ \A s \in DebitSponsors, v \in Denominations, q \in 1..MaxDebitQty :
              Debit(r, s, v, q) =>
                /\ inventory' = inventory
                /\ IF req'[r].op = "debit"
                   THEN /\ req'[r].existing \in InventoryRows(inventory, s, v)
                        /\ inventory[req'[r].existing].quantity >= q
                        /\ req'[r].qty = q
                   ELSE /\ answer' = <<"debit", "false">>
                        /\ \/ InventoryRows(inventory, s, v) = {}
                           \/ \E i \in InventoryRows(inventory, s, v) :
                                inventory[i].quantity < q
         /\ DebitWrite(r) =>
                /\ answer' = <<"debit", "true">>
                /\ DOMAIN inventory' = DOMAIN inventory
                /\ \A i \in DOMAIN inventory :
                     inventory'[i] =
                        IF i = req[r].existing
                        THEN [sponsorId |-> inventory[i].sponsorId,
                              coinValue |-> inventory[i].coinValue,
                              quantity |-> inventory[i].quantity - req[r].qty]
                        ELSE inventory[i]]_vars

\* A debit of the whole stock of one row has returned true beside an
\* untouched row of another sponsor.
C8_DebitDone ==
    /\ answer = <<"debit", "true">>
    /\ Quiescent
    /\ Len(inventory) = 2
    /\ inventory[1].quantity = 0
    /\ inventory[2].quantity = MaxStock

ActiveSessions(p) ==
    {i \in DOMAIN sessions : sessions[i].playerId = p /\ sessions[i].status = "active"}

\* C9: each player has at most one active session at every moment.
C9_OneActiveSessionPerPlayer ==
    \A p \in Players : Cardinality(ActiveSessions(p)) <= 1

\* C10: when an end-session request completes, each of the K coins it found
\* placed is expired, its unit was returned exactly once and its escrow hold
\* is refunded.
C10_EndReturnsEachCoinOnce ==
    [][\A r \in Handlers :
         (At(r, "end", "endSession") /\ req'[r].op = "idle") =>
            \A c \in req[r].seen :
                /\ coins'[c].status = "expired"
                /\ returned'[c] = 1
                /\ \A i \in HoldsOf(c) : escrow'[i].status = "refunded"]_vars

\* C11: every session that is no longer active is 'completed' exactly when
\* its coinsCollected is greater than 0 and 'abandoned' exactly when its
\* coinsCollected is 0, in every reachable state.
C11_EndedStatusMatchesCount ==
    \A s \in DOMAIN sessions :
        sessions[s].status # "active" =>
            /\ sessions[s].status = "completed" <=> sessions[s].coinsCollected > 0
            /\ sessions[s].status = "abandoned" <=> sessions[s].coinsCollected = 0

\* The coins placed for session s, whatever became of them.
CoinsOfSession(cs, s) == {c \in DOMAIN cs : cs[c].sessionId = s}

\* C12: a session start that ends with no coin placed (the draw was empty, or
\* the debit of every drawn unit failed) answers NoCoinsAvailable and leaves
\* no session row behind.
C12_EmptyStartFails ==
    [][\A r \in Handlers :
         (/\ req[r].op = "start"
          /\ req[r].pc \in {"draw", "respond"}
          /\ req'[r].op = "idle"
          /\ CoinsOfSession(coins', req[r].sess) = {})
         => /\ answer' = <<"start", "NoCoinsAvailable">>
            /\ req[r].sess \notin DOMAIN sessions']_vars

\* Process r has read coin c from the table and is acting on it.
InHand(r, c) ==
    \/ Reversing(r) /\ c \in req[r].seen
    \/ req[r].op = "collect" /\ req[r].pc # "getCoin" /\ req[r].coin = c

\* The placement step of coin c: its row is inserted, its hold not yet.
Placing(r, c) == At(r, "start", "createEscrow") /\ req[r].coin = c

\* C13: every coin has exactly one escrow hold and every hold refers to one
\* existing coin, except during the placement step of that coin; and during
\* that step no other operation has the coin in hand (coin and hold are
\* created as one atomic unit).
C13_OneHoldPerCoin ==
    /\ \A i \in DOMAIN escrow : escrow[i].coinId \in DOMAIN coins
    /\ \A c \in DOMAIN coins :
         \/ Cardinality(HoldsOf(c)) = 1
         \/ /\ HoldsOf(c) = {}
            /\ \E r \in Handlers : Placing(r, c)
            /\ \A r \in Procs : ~InHand(r, c)

\* The escrow status that corresponds to a coin status.
MirrorOf(status) ==
    IF status = "placed" THEN "held"
    ELSE IF status = "collected" THEN "released"
    ELSE "refunded"

\* C14: with no operation in flight, the hold of every coin is 'held' iff the
\* coin is 'placed', 'released' iff it is 'collected' and 'refunded' iff it is
\* 'expired'.
C14_HoldMirrorsCoin ==
    Quiescent =>
        \A c \in DOMAIN coins : \A i \in HoldsOf(c) :
            escrow[i].status = MirrorOf(coins[c].status)

\* ------------------------------------------------ the escrow table alone
\* releaseEscrow(coinId) and refundEscrow(coinId) called for any coin id on
\* holds in any status, time passing between the calls.
MaxHolds == 2

HoldIds == 1..(MaxHolds + 1)

\* Escrow tables of one hold per coin; a hold already released or refunded
\* when the observation starts carries the time of that write.
EscrowTables ==
    UNION {[1..n -> [coinId : 1..n, sponsorId : {1}, amount : {100},
                     status : {"held", "released", "refunded"},
                     releasedAt : {Never, 0}]] : n \in 1..MaxHolds}

InitEscrow ==
    /\ now = 0
    /\ escrow \in EscrowTables
    /\ \A i \in DOMAIN escrow :
         /\ escrow[i].coinId = i
         /\ escrow[i].releasedAt = Never <=> escrow[i].status = "held"
    /\ inventory = <<>>
    /\ purchased = [k \in Sponsors \X Denominations |-> 0]
    /\ coins = <<>>
    /\ sessions = <<>>
    /\ history = <<>>
    /\ playerStats = [p \in Players |-> [totalCoinsCollected |-> 0, totalDonated |-> 0]]
    /\ sponsorStats = [s \in Sponsors |->
          [totalCoinsPurchased |-> 0, totalCoinsPlaced |-> 0, totalDonated |-> 0]]
    /\ req = [r \in Procs |-> Idle]
    /\ answer = <<"", "">>
    /\ returned = <<>>
    /\ processedEvents = <<>>
    /\ credits = NoCredits

\* await storage.releaseEscrow(coinId): one update, resolving to void
EscrowRelease(c) ==
    /\ escrow' = ReleaseEscrow(escrow, c, now)
    /\ answer' = <<"release", "void">>
    /\ UNCHANGED <<now, inventory, coins, sessions, history, playerStats, sponsorStats,
                   req, ghosts, processedEvents>>

\* await storage.refundEscrow(coinId): one update, resolving to void
EscrowRefund(c) ==
    /\ escrow' = RefundEscrow(escrow, c, now)
    /\ answer' = <<"refund", "void">>
    /\ UNCHANGED <<now, inventory, coins, sessions, history, playerStats, sponsorStats,
                   req, ghosts, processedEvents>>

NextEscrow ==
    \/ Tick
    \/ \E c \in HoldIds : EscrowRelease(c)
    \/ \E c \in HoldIds : EscrowRefund(c)

SpecEscrow == InitEscrow /\ [][NextEscrow]_vars

\* C15: release(coinId) on a hold that is already 'released' changes neither
\* its status nor its releasedAt.
C15_ReleaseAgainIsNoOp ==
    [][\A c \in HoldIds :
         EscrowRelease(c) =>
            \A i \in HoldsOf(c) :
                escrow[i].status = "released" =>
                    /\ escrow'[i].status = "released"
                    /\ escrow'[i].releasedAt = escrow[i].releasedAt]_vars

\* C16: release(coinId) on a 'refunded' hold and refund(coinId) on a
\* 'released' hold report an error and leave the hold in its terminal status.
C16_NoTerminalSwitch ==
    [][\A c \in HoldIds : \A i \in HoldsOf(c) :
         /\ (EscrowRelease(c) /\ escrow[i].status = "refunded")
                => escrow'[i].status = "refunded" /\ answer'[2] = "error"
         /\ (EscrowRefund(c) /\ escrow[i].status = "released")
                => escrow'[i].status = "released" /\ answer'[2] = "error"]_vars

\* The collect request in r is about to read a placed coin of its session
\* whose expiresAt is in the past.
ReadsOverdueCoin(r) ==
    /\ At(r, "collect", "getCoin")
    /\ req'[r] # req[r]
    /\ req[r].coin \in DOMAIN coins
    /\ coins[req[r].coin].status = "placed"
    /\ coins[req[r].coin].sessionId = req[r].sess
    /\ coins[req[r].coin].expiresAt < now

\* The lazy expiry of a collect request: its credit adds exactly 1 unit of
\* the coin's denomination to the owner's stock, and it ends by moving the
\* coin's hold to 'refunded' and answering CoinExpired.
LazyExpiryEffect(r) ==
    /\ (At(r, "expire", "addWrite") /\ req'[r] # req[r]) =>
          InStock(coins[req[r].coin].sponsorId, coins[req[r].coin].coinValue)' =
          InStock(coins[req[r].coin].sponsorId, coins[req[r].coin].coinValue) + 1
    /\ (At(r, "expire", "refund") /\ req'[r] # req[r]) =>
          /\ answer' = <<"collect", "CoinExpired">>
          /\ \A i \in HoldsOf(req[r].coin) : escrow'[i].status = "refunded"

\* C17 as stated: a collect attempt on a placed coin of the player's session
\* whose expiresAt is in the past, from any position, takes the lazy expiry:
\* it answers CoinExpired, adds exactly 1 unit back and refunds the hold.
C17_OverdueCollectFromAnywhere ==
    [][\A r \in Handlers :
         /\ ReadsOverdueCoin(r) => req'[r].op = "expire"
         /\ LazyExpiryEffect(r)]_vars

\* C17, amended: the same for an attempt from within the collection radius
\* (the distance check precedes the expiry check; an attempt from farther
\* away answers TooFar and reverses nothing).
C17_OverdueCollectWithinRadius ==
    [][\A r \in Handlers :
         /\ ReadsOverdueCoin(r) =>
              IF req[r].dist <= COLLECTION_RADIUS_METERS
              THEN req'[r].op = "expire"
              ELSE answer' = <<"collect", "TooFar">> /\ req'[r].op = "idle"
         /\ LazyExpiryEffect(r)]_vars

\* A collect has ended through the lazy expiry: CoinExpired answered, the
\* coin expired, its unit back in stock, its hold refunded.
C17_LazyExpiryDone ==
    /\ answer = <<"collect", "CoinExpired">>
    /\ Quiescent
    /\ \E c \in DOMAIN coins :
         /\ coins[c].status = "expired"
         /\ returned[c] = 1
         /\ InStock(coins[c].sponsorId, coins[c].coinValue) >= 1
         /\ \A i \in HoldsOf(c) : escrow[i].status = "refunded"

\* C18: a collect goes on to collect the coin only if now < coin.expiresAt
\* strictly, that is only if the expiration job's getExpiredCoins would not
\* select the coin at that instant.
C18_CollectOnlyBeforeExpiry ==
    [][\A r \in Handlers :
         (At(r, "collect", "getCoin") /\ req'[r].pc = "markCollected") =>
            /\ now < coins[req[r].coin].expiresAt
            /\ req[r].coin \notin GetExpiredCoins(coins, now)]_vars

\* C19: a coin becomes 'collected' only by a collect request that reported a
\* position at most COLLECTION_RADIUS_METERS from the coin; a request from
\* farther away fails when it reads the coin, with TooFar if the coin is a
\* placed coin of the player's session, and changes no coin.
C19_CollectedOnlyWithinRadius ==
    [][/\ \A c \in DOMAIN coins :
            (coins[c].status # "collected" /\ coins'[c].status = "collected") =>
                \E r \in Handlers :
                    /\ At(r, "collect", "markCollected")
                    /\ req[r].coin = c
                    /\ req[r].dist <= COLLECTION_RADIUS_METERS
       /\ \A r \in Handlers :
            (/\ At(r, "collect", "getCoin")
             /\ req'[r] # req[r]
             /\ req[r].dist > COLLECTION_RADIUS_METERS) =>
                /\ req'[r].op = "idle"
                /\ answer'[2] # "collected"
                /\ coins' = coins
                /\ (/\ req[r].coin \in DOMAIN coins
                    /\ coins[req[r].coin].status = "placed"
                    /\ coins[req[r].coin].sessionId = req[r].sess)
                   => answer' = <<"collect", "TooFar">>]_vars

\* One coin was collected from the edge of the radius, and a request from
\* beyond it has just been answered TooFar for a coin that is still placed.
C19_TooFarAnswered ==
    /\ answer = <<"collect", "TooFar">>
    /\ Quiescent
    /\ \E c \in DOMAIN coins : coins[c].status = "collected"
    /\ \E c \in DOMAIN coins : coins[c].status = "placed"

\* The player for whose session coin c was placed.
OwnerOf(c) == sessions[coins[c].sessionId].playerId

\* C20: a coin that becomes 'collected' gets as collectedBy the player of
\* the session it was placed for; a collect request of any other player
\* fails when it reads the coin, with WrongSession if the coin is placed, and
\* changes no coin.
C20_CollectedByOwnerOnly ==
    [][/\ \A c \in DOMAIN coins :
            (coins[c].status # "collected" /\ coins'[c].status = "collected") =>
                coins'[c].collectedBy = OwnerOf(c)
       /\ \A r \in Handlers :
            (/\ At(r, "collect", "getCoin")
             /\ req'[r] # req[r]
             /\ req[r].coin \in DOMAIN coins
             /\ OwnerOf(req[r].coin) # req[r].player) =>
                /\ req'[r].op = "idle"
                /\ answer'[2] # "collected"
                /\ coins' = coins
                /\ coins[req[r].coin].status = "placed"
                     => answer' = <<"collect", "WrongSession">>]_vars

\* A player has collected a coin of their own session, and a request for
\* a placed coin of another player's session was answered WrongSession.
C20_WrongSessionAnswered ==
    /\ answer = <<"collect", "WrongSession">>
    /\ Quiescent
    /\ \E c \in DOMAIN coins :
         coins[c].status = "collected" /\ coins[c].collectedBy = OwnerOf(c)
    /\ \E c, d \in DOMAIN coins :
         coins[c].status = "placed" /\ OwnerOf(c) # OwnerOf(d)

\* C21: a successful collect of a coin of denomination d adds exactly 1 to
\* the player's collected-count and d to the player's donated-total, adds 1
\* to the session's coinsCollected and d to its totalValue, and appends
\* exactly one CollectionRecord for (player, coin, session, d).
C21_CollectBookkeeping ==
    [][\A r \in Handlers :
         LET p == req[r].player
             s == req[r].sess
             d == coins[req[r].coin].coinValue
         IN
         /\ (At(r, "collect", "playerStats") /\ req'[r] # req[r]) =>
               /\ playerStats'[p].totalCoinsCollected = playerStats[p].totalCoinsCollected + 1
               /\ playerStats'[p].totalDonated = playerStats[p].totalDonated + d
         /\ (At(r, "collect", "updateSession") /\ req'[r] # req[r]) =>
               /\ sessions'[s].coinsCollected = sessions[s].coinsCollected + 1
               /\ sessions'[s].totalValue = sessions[s].totalValue + d
         /\ (At(r, "collect", "addHistory") /\ req'[r] # req[r]) =>
               /\ answer' = <<"collect", "collected">>
               /\ Len(history') = Len(history) + 1
               /\ history'[Len(history')].playerId = p
               /\ history'[Len(history')].coinId = req[r].coin
               /\ history'[Len(history')].sessionId = s
               /\ history'[Len(history')].coinValue = d]_vars

\* C22: a successful collect of a coin of denomination d adds exactly d to
\* the donated-total of the sponsor profile that owns the coin and leaves
\* that sponsor's purchased and placed counts unchanged.
C22_SponsorDonatedTotal ==
    [][\A r \in Handlers :
         (At(r, "collect", "sponsorStats") /\ req'[r] # req[r]) =>
            LET s == coins[req[r].coin].sponsorId
                d == coins[req[r].coin].coinValue
            IN /\ sponsorStats'[s].totalDonated = sponsorStats[s].totalDonated + d
               /\ sponsorStats'[s].totalCoinsPurchased = sponsorStats[s].totalCoinsPurchased
               /\ sponsorStats'[s].totalCoinsPlaced = sponsorStats[s].totalCoinsPlaced]_vars

\* C23: while a session is active its coinsCollected and totalValue never
\* decrease, whatever the interleaving of the collect requests against it.
C23_SessionCountersMonotone ==
    [][\A s \in DOMAIN sessions :
         sessions[s].status = "active" =>
            /\ sessions'[s].coinsCollected >= sessions[s].coinsCollected
            /\ sessions'[s].totalValue >= sessions[s].totalValue]_vars

\* C24: the collection history is an append-only log with one record per
\* successful collection: every coin has at most one record, a coin with a
\* record is 'collected', and no step changes or removes a record.
C24_HistoryIsAppendOnlyLog ==
    /\ [](\A c \in DOMAIN coins :
            /\ Cardinality(RecordsOf(c)) <= 1
            /\ RecordsOf(c) # {} => coins[c].status = "collected")
    /\ [][/\ Len(history') >= Len(history)
          /\ \A i \in DOMAIN history : history'[i] = history[i]]_vars

\* C25: in every state a coin's collectedAt is set iff its status is
\* 'collected', and its collectedBy is set iff its status is 'collected'.
C25_CollectedFieldsIffCollected ==
    \A c \in DOMAIN coins :
        /\ coins[c].collectedAt # Never <=> coins[c].status = "collected"
        /\ coins[c].collectedBy # None <=> coins[c].status = "collected"

\* C26: the expiration sweep is idempotent: when a tick of the job has
\* completed, a tick repeated at once finds none of the coins that tick
\* handled (none of them is placed any more), so it has no coin, inventory
\* or escrow row to change for them.
C26_SweepIdempotent ==
    [][(req[Sweeper].op = "sweep" /\ req'[Sweeper].op = "idle") =>
          /\ GetExpiredCoins(coins', now') \cap req[Sweeper].seen = {}
          /\ \A c \in req[Sweeper].seen : coins'[c].status # "placed"]_vars

\* The job alone has reversed an overdue coin of a session that is still
\* active, and nothing is left for a repeated tick.
C26_SweptOnce ==
    /\ answer = <<"start", "started">>
    /\ Quiescent
    /\ GetExpiredCoins(coins, now) = {}
    /\ \E c \in DOMAIN coins :
         /\ coins[c].status = "expired"
         /\ coins[c].expiresAt <= now
         /\ returned[c] = 1
         /\ \A i \in HoldsOf(c) : escrow[i].status = "refunded"

\* The expiration job keeps ticking: setInterval(runExpirationCheck, 60 s),
\* and each of its awaited statements completes; so does each awaited
\* statement of a request in flight.  No request has to arrive.
SpecLive ==
    /\ Spec
    /\ WF_vars(Sweep)
    /\ WF_vars(~Free(1) /\ Play(1, {1}, CoinIds, Distances))

\* C27: every coin that is still 'placed' after its expiresAt has passed is
\* eventually 'expired' with its unit returned to the owner's inventory and
\* its hold refunded, given only that the expiration job keeps ticking.
C27_OverdueCoinEventuallyReversed ==
    \A c \in 1..MaxCoins :
        (/\ c \in DOMAIN coins
         /\ coins[c].status = "placed"
         /\ coins[c].expiresAt < now)
        ~> (/\ c \in DOMAIN coins
            /\ coins[c].status = "expired"
            /\ returned[c] >= 1
            /\ \A i \in HoldsOf(c) : escrow[i].status = "refunded")

\* C28: the checkout-completed webhook event of a checkout credits the
\* sponsor's inventory at most once, however often and however concurrently
\* the event is delivered.
C28_WebhookCreditsOnce ==
    \A k \in CheckoutIds : credits[k].webhook <= 1

\* C29: no path credits the inventory twice for one purchase: neither the
\* redelivered webhook event nor the repeated payment-success request of a
\* checkout credits its coins a second time.
C29_EveryPathCreditsOnce ==
    \A k \in CheckoutIds :
        /\ credits[k].redirect <= 1
        /\ credits[k].webhook <= 1

\* C30: there is at most one inventory row per (owner, denomination) in every
\* state, also after concurrent credits for a pair that had no row.
C30_OneRowPerPair ==
    \A s \in Sponsors, v \in Denominations :
        Cardinality(InventoryRows(inventory, s, v)) <= 1

\* ------------------------------------------------ placement geometry
\* Coordinates are whole numbers of 1/111000 degree, the angle that
\* generateRandomPointInRadius takes for one meter (radiusKm / 111 degrees
\* for radiusKm kilometers); distances are whole centimeters, rounded down.
\* Math.random() is a multiple of 1/RandomSteps in [0, 1).
RandomSteps == 1000

\* R = 6371e3 meters
EarthRadiusKm == 6371

\* `radiusKm / 111`: 1 degree taken as 111 km
KmPerDegree == 111

\* Math.PI as the fraction 355/113 (off by less than 1 in 10^7)
PiNum == 355

PiDen == 113

UnitsPerDegree == KmPerDegree * 1000

Abs(x) == IF x < 0 THEN 0 - x ELSE x

\* R * c for an arc c of `units` coordinate units:
\* R * units * (PI / 180) / UnitsPerDegree meters, which is
\* units * (EarthRadiusKm * PI) / (180 * KmPerDegree) meters; the quotient is
\* 1 + ArcExcess / ArcDen.
ArcDen == PiDen * 180 * KmPerDegree

ArcExcess == EarthRadiusKm * PiNum - ArcDen

ArcCentimeters(units) == units * 100 + (units * ArcExcess * 100) \div ArcDen

\* calculateDistance for two points on one meridian, where dlambda = 0,
\* a = sin^2(dphi / 2) and c = 2 atan2(sqrt a, sqrt(1 - a)) = |dphi|, and for
\* two points on the equator, where cos(phi1) cos(phi2) = 1,
\* a = sin^2(dlambda / 2) and c = |dlambda|.
CalculateDistance(lat1, lon1, lat2, lon2) ==
    CASE lon1 = lon2 -> ArcCentimeters(Abs(lat2 - lat1))
      [] lon1 # lon2 /\ lat1 = 0 /\ lat2 = 0 -> ArcCentimeters(Abs(lon2 - lon1))

\* cos and sin of angle = Math.random() * 2 PI for Math.random() = turn / 4
CosQuarter(turn) == IF turn = 0 THEN 1 ELSE IF turn = 2 THEN 0 - 1 ELSE 0

SinQuarter(turn) == IF turn = 1 THEN 1 ELSE IF turn = 3 THEN 0 - 1 ELSE 0

\* generateRandomPointInRadius with the two values of Math.random() as
\* arguments: random / RandomSteps for the radius, turn / 4 for the angle.
\* Math.cos(centerLat * PI / 180) is 1 on the equator; off the equator the
\* longitude term is taken only for sin(angle) = 0, where it vanishes.
GenerateRandomPointInRadius(centerLat, centerLon, minRadiusKm, maxRadiusKm, random, turn) ==
    LET radiusDeg == minRadiusKm * 1000
                     + (random * (maxRadiusKm - minRadiusKm) * 1000) \div RandomSteps
    IN [latitude |-> centerLat + radiusDeg * CosQuarter(turn),
        longitude |-> IF SinQuarter(turn) = 0 THEN centerLon
                      ELSE centerLon + radiusDeg * SinQuarter(turn)]

\* Session start points, in degrees of latitude: on the equator, and north
\* and south of it.
CenterDegrees == {0, 51, 0 - 34}

\* generateRandomPointInRadius(latitude, longitude, 1, 2) for a start point;
\* one placement is observed at a time.
PlacePoint(degrees, random, turn) ==
    /\ answer[1] = ""
    /\ degrees = 0 \/ SinQuarter(turn) = 0
    /\ answer' = <<"point",
                   [center |-> [latitude |-> degrees * UnitsPerDegree, longitude |-> 0],
                    point |-> GenerateRandomPointInRadius(degrees * UnitsPerDegree, 0,
                                                          1, 2, random, turn)]>>
    /\ UNCHANGED <<now, tables, req, ghosts, processedEvents>>

\* calculateDistance from the start point to the point just placed
MeasurePoint ==
    /\ answer[1] = "point"
    /\ answer' = <<"distance",
                   CalculateDistance(answer[2].center.latitude, answer[2].center.longitude,
                                     answer[2].point.latitude, answer[2].point.longitude)>>
    /\ UNCHANGED <<now, tables, req, ghosts, processedEvents>>

NextGeometry ==
    \/ \E degrees \in CenterDegrees, random \in 0..(RandomSteps - 1), turn \in 0..3 :
         PlacePoint(degrees, random, turn)
    \/ MeasurePoint

SpecGeometry == Init /\ [][NextGeometry]_vars

\* C31: every point that the random placement produces for radius bounds
\* [1, 2] km lies, by the distance function, between 1000 and 2000 meters
\* from the center.
C31_PlacementWithinAnnulus ==
    answer[1] = "distance" => (100000 <= answer[2] /\ answer[2] <= 200000)

\* The holds opened for the coins of session s.
HoldsOfSession(es, cs, s) == {i \in DOMAIN es : es[i].coinId \in CoinsOfSession(cs, s)}

\* C32: in a session start, a unit whose debit fails is dropped with no coin
\* and no hold; a unit whose debit succeeds gets exactly one new coin, in
\* status 'placed', and then exactly one new hold, in status 'held', for that
\* coin; so when the start answers, the coins created for its session are as
\* many as its successful debits and as the holds opened, and at most 10.
C32_OneCoinAndHoldPerDebit ==
    [][\A r \in Handlers :
         LET s == req[r].sess
             unit == Head(req[r].units)
         IN
         /\ (At(r, "start", "decSelect") /\ req'[r] # req[r]) =>
               /\ coins' = coins /\ escrow' = escrow /\ inventory' = inventory
               /\ IF req'[r].pc = "decUpdate"
                  THEN /\ DecrementAllowed(inventory, req'[r].existing, 1)
                       /\ req'[r].units = req[r].units
                  ELSE /\ req'[r].pc \in {"decSelect", "respond"}
                       /\ req'[r].units = Tail(req[r].units)
         /\ (At(r, "start", "decUpdate") /\ req'[r] # req[r]) =>
               /\ coins' = coins /\ escrow' = escrow
               /\ req'[r].pc = "createCoin"
               /\ req'[r].units = req[r].units
         /\ (At(r, "start", "createCoin") /\ req'[r] # req[r]) =>
               /\ Len(coins') = Len(coins) + 1
               /\ \A c \in DOMAIN coins : coins'[c] = coins[c]
               /\ coins'[Len(coins')].status = "placed"
               /\ coins'[Len(coins')].sessionId = s
               /\ coins'[Len(coins')].sponsorId = unit.sponsorId
               /\ coins'[Len(coins')].coinValue = unit.coinValue
               /\ escrow' = escrow
               /\ req'[r].pc = "createEscrow"
               /\ req'[r].coin = Len(coins')
               /\ req'[r].units = req[r].units
         /\ (At(r, "start", "createEscrow") /\ req'[r] # req[r]) =>
               /\ Len(escrow') = Len(escrow) + 1
               /\ \A i \in DOMAIN escrow : escrow'[i] = escrow[i]
               /\ escrow'[Len(escrow')].status = "held"
               /\ escrow'[Len(escrow')].coinId = req[r].coin
               /\ escrow'[Len(escrow')].sponsorId = unit.sponsorId
               /\ escrow'[Len(escrow')].amount = unit.coinValue
               /\ coins' = coins
               /\ req'[r].units = Tail(req[r].units)
         /\ (At(r, "start", "respond") /\ req'[r] # req[r]) =>
               /\ Cardinality(CoinsOfSession(coins, s))
                    = Cardinality(HoldsOfSession(escrow, coins, s))
               /\ Cardinality(CoinsOfSession(coins, s)) <= MaxCoinCount]_vars

\* Two starts drew the same unit: the debit of one succeeded and gave one
\* coin with one hold, the debit of the other failed and gave neither.
C32_OneDebitFailed ==
    /\ Quiescent
    /\ answer = <<"start", "started">>
    /\ \E s, t \in DOMAIN sessions :
         /\ CoinsOfSession(coins, s) = {}
         /\ Cardinality(CoinsOfSession(coins, t)) = 1
         /\ Cardinality(HoldsOfSession(escrow, coins, t)) = 1
    /\ Len(coins) = 1
    /\ Len(escrow) = 1

\* C33: a start-session request for a player who has an active session is
\* answered SessionAlreadyActive and is over with that answer: no session,
\* coin or escrow row is created and no inventory row is changed.
C33_StartRejectedWhenActive ==
    [][\A r \in Handlers, p \in Players :
         (StartSession(r, p) /\ ActiveSessions(p) # {}) =>
            /\ answer' = <<"start", "SessionAlreadyActive">>
            /\ req'[r].op = "idle"
            /\ sessions' = sessions
            /\ coins' = coins
            /\ escrow' = escrow
            /\ inventory' = inventory]_vars

\* A start was rejected for a player whose session is active with a placed
\* coin, with stock left to draw from.
C33_StartRejected ==
    /\ answer = <<"start", "SessionAlreadyActive">>
    /\ Quiescent
    /\ \E s \in DOMAIN sessions :
         /\ sessions[s].status = "active"
         /\ \E c \in CoinsOfSession(coins, s) : coins[c].status = "placed"
    /\ PositiveRows(inventory) # {}

\* ------------------------------------------------ the draw alone
\* getRandomAvailableCoinsFromInventory(count) on any inventory table: rows
\* of two sponsors and two denominations, several rows for one pair and
\* quantities of zero or less included.
MaxRows == 2

MaxDrawCount == 3

DrawValues == {100, 200}

DrawInventories ==
    UNION {[1..n -> [sponsorId : DebitSponsors, coinValue : DrawValues,
                     quantity : (0 - 1)..MaxStock]] : n \in 0..MaxRows}

InitDraw ==
    /\ now = 0
    /\ inventory \in DrawInventories
    /\ purchased = [k \in Sponsors \X Denominations |-> 0]
    /\ coins = <<>>
    /\ escrow = <<>>
    /\ sessions = <<>>
    /\ history = <<>>
    /\ playerStats = [p \in Players |-> [totalCoinsCollected |-> 0, totalDonated |-> 0]]
    /\ sponsorStats = [s \in Sponsors |->
          [totalCoinsPurchased |-> 0, totalCoinsPlaced |-> 0, totalDonated |-> 0]]
    /\ req = [r \in Procs |-> Idle]
    /\ answer = <<"", "">>
    /\ returned = <<>>
    /\ processedEvents = <<>>
    /\ credits = NoCredits

\* await storage.getRandomAvailableCoinsFromInventory(count)
Draw(count) ==
    /\ \E units \in GetRandomAvailableCoinsFromInventory(inventory, count) :
         answer' = <<"draw", units>>
    /\ UNCHANGED <<now, tables, req, ghosts, processedEvents>>

NextDraw == \E count \in 1..MaxDrawCount : Draw(count)

SpecDraw == InitDraw /\ [][NextDraw]_vars

\* The units of a draw that name the pair (s, v).
Naming(units, s, v) ==
    {i \in DOMAIN units : units[i].sponsorId = s /\ units[i].coinValue = v}

\* C34: drawRandom(count) leaves the inventory unchanged and returns at most
\* count units; each unit names the (owner, denomination) of a row with
\* quantity > 0, and no row is named more often than its quantity (the units
\* naming a pair are no more than the units in the pair's rows of positive
\* quantity); the result is empty iff no row has quantity > 0.
C34_DrawContract ==
    [][\A count \in 1..MaxDrawCount :
         Draw(count) =>
            LET units == answer'[2] IN
            /\ inventory' = inventory
            /\ Len(units) <= count
            /\ \A i \in DOMAIN units :
                 \E j \in PositiveRows(inventory) :
                    /\ inventory[j].sponsorId = units[i].sponsorId
                    /\ inventory[j].coinValue = units[i].coinValue
            /\ \A s \in DebitSponsors, v \in DrawValues :
                 Cardinality(Naming(units, s, v)) <=
                    SumOver([j \in DOMAIN inventory |-> inventory[j].quantity],
                            InventoryRows(inventory, s, v) \cap PositiveRows(inventory))
            /\ units = <<>> <=> PositiveRows(inventory) = {}]_vars

\* A draw of two units from a row of one unit and a row of two, beside
\* nothing else: one unit of each pair was returned.
C34_DrewAcrossRows ==
    /\ answer[1] = "draw"
    /\ Len(answer[2]) = 2
    /\ answer[2][1] # answer[2][2]
    /\ Len(inventory) = 2
    /\ inventory[1].quantity = 1
    /\ inventory[2].quantity = MaxStock

\* One statement of the reversal of coin c, whichever process runs it: the
\* coin row gets status 'expired', then one unit of the coin's denomination
\* is added to a row of its sponsor (or a row is inserted), then the coin's
\* holds get status 'refunded'.
ReversalStep(r) ==
    LET c == req[r].coin IN
    CASE req[r].pc = "expire" ->
           /\ req'[r].coin \in req[r].todo
           /\ coins' = UpdateCoinStatus(coins, req'[r].coin, "expired", None, now)
           /\ coins'[req'[r].coin].status = "expired"
           /\ inventory' = inventory /\ escrow' = escrow
      [] req[r].pc = "addSelect" ->
           /\ coins' = coins /\ inventory' = inventory /\ escrow' = escrow
           /\ req'[r].existing \in SelectExisting(inventory, coins[c].sponsorId,
                                                  coins[c].coinValue)
      [] req[r].pc = "addWrite" ->
           /\ inventory' = AddToInventoryWrite(inventory, req[r].existing,
                                               coins[c].sponsorId, coins[c].coinValue, 1)
           /\ InStock(coins[c].sponsorId, coins[c].coinValue)' =
                InStock(coins[c].sponsorId, coins[c].coinValue) + 1
           /\ coins' = coins /\ escrow' = escrow
      [] req[r].pc = "refund" ->
           /\ escrow' = RefundEscrow(escrow, c, now)
           /\ \A i \in HoldsOf(c) : escrow'[i].status = "refunded"
           /\ coins' = coins /\ inventory' = inventory

\* C35: the lazy expiry inside collect, the session-end cleanup and the
\* expiration job apply the same reversal to a coin: each of their statements
\* has, from the same ledger state and for the same coin, the same effect on
\* the coin's status, the inventory and the coin's hold, whichever of the
\* three paths runs it.
C35_SameReversalOnEveryPath ==
    [][\A r \in Procs :
         (/\ Reversing(r)
          /\ req[r].pc \in {"expire", "addSelect", "addWrite", "refund"}
          /\ req'[r] # req[r]) => ReversalStep(r)]_vars

\* One coin was reversed by the end of its session (before its expiry) and
\* another by the lazy expiry of a collect; both are expired, returned once
\* and refunded.
C35_ReversedOnTwoPaths ==
    /\ answer = <<"collect", "CoinExpired">>
    /\ Quiescent
    /\ \E a, b \in DOMAIN coins :
         /\ sessions[coins[a].sessionId].status # "active"
         /\ sessions[coins[a].sessionId].endedAt < coins[a].expiresAt
         /\ sessions[coins[b].sessionId].status = "active"
         /\ coins[b].expiresAt < now
         /\ \A c \in {a, b} :
              /\ coins[c].status = "expired"
              /\ returned[c] = 1
              /\ \A i \in HoldsOf(c) : escrow[i].status = "refunded"

\* The answers with which a collect request is rejected before it acts.
Rejections == {"NoActiveSession", "CoinNotFound", "CoinUnavailable", "WrongSession", "TooFar"}

\* C36: a collect request is rejected by the first check that fails, in the
\* order NoActiveSession, CoinNotFound, CoinUnavailable, WrongSession, TooFar,
\* and a request rejected with one of these has changed no table (coins,
\* escrow, inventory, sessions, profiles, history).
C36_RejectedCollectChangesNothing ==
    [][\A r \in Handlers :
         /\ \A p \in Players, c \in CoinIds, d \in Distances :
              Collect(r, p, c, d) =>
                 /\ UNCHANGED tables
                 /\ IF ActiveSessions(p) = {}
                    THEN answer' = <<"collect", "NoActiveSession">> /\ req'[r].op = "idle"
                    ELSE req'[r].op = "collect"
         /\ (At(r, "collect", "getCoin") /\ req'[r] # req[r]) =>
              LET c == req[r].coin
                  rejected(text) == /\ answer' = <<"collect", text>>
                                    /\ req'[r].op = "idle"
                                    /\ UNCHANGED tables
              IN IF c \notin DOMAIN coins THEN rejected("CoinNotFound")
                 ELSE IF coins[c].status # "placed" THEN rejected("CoinUnavailable")
                 ELSE IF coins[c].sessionId # req[r].sess THEN rejected("WrongSession")
                 ELSE IF req[r].dist > COLLECTION_RADIUS_METERS THEN rejected("TooFar")
                 ELSE req'[r].op # "idle"
         /\ (req[r].op = "collect" /\ req'[r].op = "idle" /\ answer'[2] \in Rejections) =>
              /\ req[r].pc = "getCoin"
              /\ UNCHANGED tables]_vars

\* Two players have a session each; a coin was collected by its owner, and a
\* later request for that coin was answered CoinUnavailable and left the one
\* record and the other player's placed coin as they were.
C36_RejectedAfterCollect ==
    /\ answer = <<"collect", "CoinUnavailable">>
    /\ Quiescent
    /\ \A p \in Players : ActiveSessions(p) # {}
    /\ Len(history) = 1
    /\ \E c, d \in DOMAIN coins :
         /\ coins[c].status = "collected"
         /\ coins[d].status = "placed"
         /\ OwnerOf(c) # OwnerOf(d)

\* C37: no statement of a successful collect (from the marking of the coin to
\* the history record and the answer) changes an inventory row: the unit was
\* debited at placement, and collection neither debits nor credits.
C37_CollectLeavesInventory ==
    [][\A r \in Handlers :
         (req[r].op = "collect" /\ req[r].pc # "getCoin" /\ req'[r] # req[r]) =>
            inventory' = inventory]_vars

\* A coin was collected while a unit of its pair is still in stock: the stock
\* is what was bought less the units placed.
C37_CollectedBesideStock ==
    /\ answer = <<"collect", "collected">>
    /\ Quiescent
    /\ \E c \in DOMAIN coins : coins[c].status = "collected" /\ RecordsOf(c) # {}
    /\ \A c \in DOMAIN coins : returned[c] = 0
    /\ \A k \in DOMAIN purchased :
         /\ InStock(k[1], k[2]) >= 1
         /\ InStock(k[1], k[2]) + Len(coins) = purchased[k]

\* ------------------------------------------------ the expiration job alone
\* The job over a ledger of placed coins that fall due together, with nothing
\* else running; one awaited storage statement of the job may fail.
InitSweep ==
    /\ now = 0
    /\ \E n \in 1..MaxCoins, q \in 0..MaxStock :
         /\ coins = [c \in 1..n |-> [sponsorId |-> 1, sessionId |-> 1, coinValue |-> 100,
                                     status |-> "placed",
                                     expiresAt |-> COIN_TTL_MINUTES,
                                     collectedAt |-> Never, collectedBy |-> None]]
         /\ escrow = [c \in 1..n |-> [coinId |-> c, sponsorId |-> 1, amount |-> 100,
                                      status |-> "held", releasedAt |-> Never]]
         /\ inventory = <<[sponsorId |-> 1, coinValue |-> 100, quantity |-> q]>>
         /\ purchased = [k \in Sponsors \X Denominations |-> q + n]
         /\ returned = [c \in 1..n |-> 0]
    /\ sessions = <<[playerId |-> 1, status |-> "active", coinsCollected |-> 0,
                     totalValue |-> 0, endedAt |-> Never]>>
    /\ history = <<>>
    /\ playerStats = [p \in Players |-> [totalCoinsCollected |-> 0, totalDonated |-> 0]]
    /\ sponsorStats = [s \in Sponsors |->
          [totalCoinsPurchased |-> 0, totalCoinsPlaced |-> 0, totalDonated |-> 0]]
    /\ req = [r \in Procs |-> Idle]
    /\ answer = <<"", "">>
    /\ processedEvents = <<>>
    /\ credits = NoCredits

\* The storage statement that the job awaits rejects without effect: the
\* catch of runExpirationCheck logs the error and the tick is over.  At most
\* one tick fails.
SweepFail ==
    /\ req[Sweeper].op = "sweep"
    /\ answer[2] # "failed"
    /\ req' = [req EXCEPT ![Sweeper] = Idle]
    /\ answer' = <<"sweep", "failed">>
    /\ UNCHANGED <<now, tables, ghosts, processedEvents>>

NextSweep ==
    \/ Tick
    \/ Sweep
    \/ SweepFail

SpecSweep == InitSweep /\ [][NextSweep]_vars

\* setInterval keeps the job ticking, and its statements complete.
SpecSweepLive == SpecSweep /\ WF_vars(Sweep)

\* C38: a sweep tick that fails part-way is made good by later ticks: every
\* overdue placed coin, whether or not a tick failed on it, ends 'expired'
\* with its unit credited back exactly once and its hold refunded.
C38_FailedTickMadeGood ==
    \A c \in 1..MaxCoins :
        (/\ c \in DOMAIN coins
         /\ coins[c].status = "placed"
         /\ coins[c].expiresAt <= now)
        ~> (/\ c \in DOMAIN coins
            /\ coins[c].status = "expired"
            /\ returned[c] = 1
            /\ \A i \in HoldsOf(c) : escrow[i].status = "refunded")

\* C39: once the end-session request of a session has completed (the session
\* is no longer active), no coin of that session is 'placed', also when the
\* end request ran while the start request of the session was still placing
\* its coins.
C39_NoPlacedCoinAfterEnd ==
    \A c \in DOMAIN coins :
        coins[c].status = "placed" => sessions[coins[c].sessionId].status = "active"

\* C40: a session that is 'completed' or 'abandoned' is final: its status
\* does not change again, its coinsCollected and totalValue do not change,
\* and no coin of it becomes 'collected', also when a collect request that
\* read the session as active is still in flight when the session is ended.
C40_EndedSessionIsFinal ==
    [][\A s \in DOMAIN sessions :
         sessions[s].status # "active" =>
            /\ sessions'[s].status = sessions[s].status
            /\ sessions'[s].coinsCollected = sessions[s].coinsCollected
            /\ sessions'[s].totalValue = sessions[s].totalValue
            /\ \A c \in CoinsOfSession(coins, s) :
                 coins[c].status # "collected" => coins'[c].status # "collected"]_vars
====
